---- MODULE Spec2Model ----
(***************************************************************************)
(* ACC SmartLink spa monitor (src/src/spa-monitor.ts).                     *)
(*                                                                         *)
(* The model covers the display-frame decoder (parseDisplayData), the      *)
(* sticky status merge (updateStateFromDisplay), the collection session    *)
(* (collectReading: WebSocket callbacks and the timeout timer), the        *)
(* periodic scheduler (setInterval(runCollection)) and process shutdown.   *)
(* It also covers several sessions at once (CarrySpec) and the reconnect   *)
(* loop of the continuous monitor                                          *)
(* (src/unnamed/part_000: connect, scheduleReconnect, shutdown).           *)
(*                                                                         *)
(* A dsp hex string is a sequence of hex digits (0..15); two digits make a *)
(* byte, as parseInt(substring(i, i + 2), 16) reads them.  JavaScript's    *)
(* undefined and null are the integers Undefined and Null.  A median is a  *)
(* real number; it is held in half-degrees (twice its value) so that the   *)
(* mean of two integer samples is exact.                                   *)
(***************************************************************************)
EXTENDS Integers, Sequences, FiniteSets, TLC

\* ---------------------------------------------------------------- bounds
MaxSessions == 2
MaxFrames == 4
MaxValues == 4
MaxConnects == 12

\* ------------------------------------------------------- program constants
SAMPLE_COUNT == 3
MIN_VALID_TEMP == 45
MAX_VALID_TEMP == 106

STATUS_HEATING == 1
STATUS_AUX_HI == 2
STATUS_JETS_LO == 4
STATUS_JETS_HI == 8
STATUS_FILTERING == 16
STATUS_EDIT == 32
STATUS_OVERHEAT == 64
STATUS_AM == 128

STATUS2_LIGHT == 16
STATUS2_JETS2_HI == 32
STATUS2_JETS2_LO == 64
STATUS2_AUX_LO == 128

Undefined == -1
Null == -2

\* ---------------------------------------------------------- hex and bits
\* The two hex digits of a byte, high digit first.
HexOf(b) == <<b \div 16, b % 16>>

RECURSIVE Hex(_)
\* The hex string of a sequence of bytes.
Hex(bs) == IF bs = <<>> THEN <<>> ELSE HexOf(Head(bs)) \o Hex(Tail(bs))

\* hexString.substring(from, to), 0-based, clamped to the string's length.
Substring(h, from, to) ==
  LET hi == IF to < Len(h) THEN to ELSE Len(h)
  IN  IF from >= hi THEN <<>> ELSE SubSeq(h, from + 1, hi)

\* x & mask for a mask that is a single bit; undefined converts to 0.
HasBit(x, mask) == IF x < 0 THEN FALSE ELSE (x \div mask) % 2 = 1

\* byte & 0x7f; undefined converts to 0.
Low7(x) == IF x < 0 THEN 0 ELSE x % 128

\* bytes[k] with a 0-based index: undefined past the end of the array.
ByteAt(bytes, k) == IF k + 1 <= Len(bytes) THEN bytes[k + 1] ELSE Undefined

\* ------------------------------------------------------------ the tables
SEVEN_SEGMENT_DIGITS(masked) ==
  CASE masked = 0 -> 0
    [] masked = 63 -> 0
    [] masked = 6 -> 1
    [] masked = 91 -> 2
    [] masked = 79 -> 3
    [] masked = 102 -> 4
    [] masked = 109 -> 5
    [] masked = 125 -> 6
    [] masked = 7 -> 7
    [] masked = 127 -> 8
    [] masked = 111 -> 9
    [] OTHER -> Null

SEVEN_SEGMENT_LETTERS(masked) ==
  CASE masked = 121 -> "E"
    [] masked = 57 -> "C"
    [] masked = 92 -> "o"
    [] masked = 84 -> "n"
    [] masked = 113 -> "F"
    [] masked = 118 -> "H"
    [] masked = 56 -> "L"
    [] masked = 62 -> "U"
    [] masked = 115 -> "P"
    [] OTHER -> "null"

\* decodeDigit without the 0x7f mask.
decodeDigit_NoMask(byte) == SEVEN_SEGMENT_DIGITS(byte)

decodeDigit(byte) == SEVEN_SEGMENT_DIGITS(Low7(byte))

decodeLetter(byte) == SEVEN_SEGMENT_LETTERS(Low7(byte))

\* String.prototype.toUpperCase on one letter of the table.
ToUpperCase(c) == IF c = "o" THEN "O" ELSE IF c = "n" THEN "N" ELSE c

PATTERN_ECON == <<5, 4, 5, 12, 3, 9, 7, 9>>
PATTERN_BLANK == <<0, 0, 0, 0, 0, 0, 0, 0, 0, 0>>
BLANK_COLON == <<0, 0, 0, 0, 0, 0, 0, 0, 0, 0, 1, 0>>

\* The texts the letter rule recognises, letter by letter.
LetterTexts ==
  { <<"H", "I">>, <<"L", "O">>, <<"O", "N">>, <<"O", "F", "F">>, <<"E", "C", "O">> }

\* ------------------------------------------------------------ the decoder
RECURSIVE BytesOf(_)
\* The loop of parseDisplayData: one byte per two hex digits; a trailing
\* single digit is parsed on its own.
BytesOf(h) ==
  IF h = <<>> THEN <<>>
  ELSE IF Len(h) = 1 THEN <<h[1]>>
  ELSE <<h[1] * 16 + h[2]>> \o BytesOf(SubSeq(h, 3, Len(h)))

RECURSIVE LettersOf(_)
\* bytes.map(decodeLetter).filter(l => l !== null)
LettersOf(bs) ==
  IF bs = <<>> THEN <<>>
  ELSE LET l == decodeLetter(Head(bs))
       IN  (IF l = "null" THEN <<>> ELSE <<l>>) \o LettersOf(Tail(bs))

RECURSIVE Reverse(_)
Reverse(q) == IF q = <<>> THEN <<>> ELSE Reverse(Tail(q)) \o <<Head(q)>>

\* letters.reverse().join("").toUpperCase(), kept letter by letter.
UpperText(letters) ==
  LET r == Reverse(letters) IN [i \in 1..Len(r) |-> ToUpperCase(r[i])]

\* A DisplayResult: type, temp, statusByte1, statusByte2 (value and raw are
\* only logged).
Display(type, temp, sb1, sb2) ==
  [type |-> type, temp |-> temp, statusByte1 |-> sb1, statusByte2 |-> sb2]

\* The letter rule without the test of the text against the known texts.
IsLetterText_AnyText(bytes) ==
  LET letters == LettersOf(Substring(bytes, 0, 4))
  IN  Len(letters) >= 2

\* The letter rule of parseDisplayData.
IsLetterText(bytes) ==
  LET letters == LettersOf(Substring(bytes, 0, 4))
  IN  Len(letters) >= 2 /\ UpperText(letters) \in LetterTexts

\* TempOf with the upper bound of the three-digit range left out.
TempOf_NoUpperBound(bytes) ==
  LET hundredsDigit == decodeDigit(ByteAt(bytes, 3))
      tensDigit == decodeDigit(ByteAt(bytes, 2))
      onesDigit == decodeDigit(ByteAt(bytes, 1))
      t3 == 100 + tensDigit * 10 + onesDigit
      t2 == tensDigit * 10 + onesDigit
  IN  IF Low7(ByteAt(bytes, 0)) # 113 THEN Undefined
      ELSE IF hundredsDigit = 1 /\ tensDigit # Null /\ onesDigit # Null
              /\ t3 >= 100 THEN t3
      ELSE IF tensDigit # Null /\ onesDigit # Null
              /\ t2 >= MIN_VALID_TEMP /\ t2 <= 99 THEN t2
      ELSE Undefined

\* TempOf with the lower bound of the two-digit range excluded.
TempOf_StrictMin(bytes) ==
  LET hundredsDigit == decodeDigit(ByteAt(bytes, 3))
      tensDigit == decodeDigit(ByteAt(bytes, 2))
      onesDigit == decodeDigit(ByteAt(bytes, 1))
      t3 == 100 + tensDigit * 10 + onesDigit
      t2 == tensDigit * 10 + onesDigit
  IN  IF Low7(ByteAt(bytes, 0)) # 113 THEN Undefined
      ELSE IF hundredsDigit = 1 /\ tensDigit # Null /\ onesDigit # Null
              /\ t3 >= 100 /\ t3 <= MAX_VALID_TEMP THEN t3
      ELSE IF tensDigit # Null /\ onesDigit # Null
              /\ t2 > MIN_VALID_TEMP /\ t2 <= 99 THEN t2
      ELSE Undefined

\* The temperature branch of parseDisplayData: the accepted temperature,
\* or Undefined when the branch falls through.
TempOf(bytes) ==
  LET hundredsDigit == decodeDigit(ByteAt(bytes, 3))
      tensDigit == decodeDigit(ByteAt(bytes, 2))
      onesDigit == decodeDigit(ByteAt(bytes, 1))
      t3 == 100 + tensDigit * 10 + onesDigit
      t2 == tensDigit * 10 + onesDigit
  IN  IF Low7(ByteAt(bytes, 0)) # 113 THEN Undefined
      ELSE IF hundredsDigit = 1 /\ tensDigit # Null /\ onesDigit # Null
              /\ t3 >= 100 /\ t3 <= MAX_VALID_TEMP THEN t3
      ELSE IF tensDigit # Null /\ onesDigit # Null
              /\ t2 >= MIN_VALID_TEMP /\ t2 <= 99 THEN t2
      ELSE Undefined

\* The time rule of parseDisplayData.
IsTime(bytes) ==
  /\ decodeDigit(ByteAt(bytes, 0)) # Null
  /\ decodeDigit(ByteAt(bytes, 1)) # Null
  /\ decodeDigit(ByteAt(bytes, 2)) # Null

\* parseDisplayData with the blank check on the whole frame instead of its
\* first ten hex digits.
parseDisplayData_BlankWholeFrame(hexString) ==
  LET bytes == BytesOf(hexString)
      statusByte1 == ByteAt(bytes, 4)
      statusByte2 == ByteAt(bytes, 5)
  IN  IF hexString = PATTERN_BLANK \o <<0, 0>> \/ hexString = BLANK_COLON
        THEN Display("blank", Undefined, Undefined, Undefined)
      ELSE IF Substring(hexString, 0, 8) = PATTERN_ECON
        THEN Display("eco", Undefined, statusByte1, statusByte2)
      ELSE IF IsLetterText(bytes)
        THEN Display("unknown", Undefined, Undefined, Undefined)
      ELSE IF TempOf(bytes) # Undefined
        THEN Display("temp", TempOf(bytes), statusByte1, statusByte2)
      ELSE IF IsTime(bytes)
        THEN Display("time", Undefined, statusByte1, statusByte2)
      ELSE Display("unknown", Undefined, statusByte1, statusByte2)

parseDisplayData(hexString) ==
  LET bytes == BytesOf(hexString)
      prefix == Substring(hexString, 0, 10)
      statusByte1 == ByteAt(bytes, 4)
      statusByte2 == ByteAt(bytes, 5)
  IN  IF prefix = PATTERN_BLANK \/ hexString = BLANK_COLON
        THEN Display("blank", Undefined, Undefined, Undefined)
      ELSE IF Substring(hexString, 0, 8) = PATTERN_ECON
        THEN Display("eco", Undefined, statusByte1, statusByte2)
      ELSE IF IsLetterText(bytes)
        THEN Display("unknown", Undefined, Undefined, Undefined)
      ELSE IF TempOf(bytes) # Undefined
        THEN Display("temp", TempOf(bytes), statusByte1, statusByte2)
      ELSE IF IsTime(bytes)
        THEN Display("time", Undefined, statusByte1, statusByte2)
      ELSE Display("unknown", Undefined, statusByte1, statusByte2)

\* ---------------------------------------------------------- sticky state
\* The CollectionState a session starts with.
InitialState ==
  [currentTemp |-> Null, heating |-> FALSE, auxHi |-> FALSE, jetsLo |-> FALSE,
   jetsHi |-> FALSE, filtering |-> FALSE, lightOn |-> FALSE, edit |-> FALSE,
   overheat |-> FALSE, jets2Hi |-> FALSE, jets2Lo |-> FALSE, auxLo |-> FALSE,
   lastStatusByte1 |-> Null]

\* updateStateFromDisplay that forgets currentTemp on a frame that is not a
\* temperature.
updateStateFromDisplay_ClearTemp(display, state) ==
  LET s1 == IF display.statusByte1 # Undefined
            THEN [state EXCEPT
                    !.heating = HasBit(display.statusByte1, STATUS_HEATING),
                    !.auxHi = HasBit(display.statusByte1, STATUS_AUX_HI),
                    !.jetsLo = HasBit(display.statusByte1, STATUS_JETS_LO),
                    !.jetsHi = HasBit(display.statusByte1, STATUS_JETS_HI),
                    !.filtering = HasBit(display.statusByte1, STATUS_FILTERING),
                    !.edit = HasBit(display.statusByte1, STATUS_EDIT),
                    !.overheat = HasBit(display.statusByte1, STATUS_OVERHEAT),
                    !.lastStatusByte1 = display.statusByte1]
            ELSE state
      s2 == IF display.statusByte2 # Undefined
            THEN [s1 EXCEPT
                    !.lightOn = HasBit(display.statusByte2, STATUS2_LIGHT),
                    !.jets2Hi = HasBit(display.statusByte2, STATUS2_JETS2_HI),
                    !.jets2Lo = HasBit(display.statusByte2, STATUS2_JETS2_LO),
                    !.auxLo = HasBit(display.statusByte2, STATUS2_AUX_LO)]
            ELSE s1
  IN  IF display.type = "temp" /\ display.temp # Undefined
      THEN [s2 EXCEPT !.currentTemp = display.temp]
      ELSE [s2 EXCEPT !.currentTemp = Null]

\* updateStateFromDisplay that resets the flags of a missing status byte.
updateStateFromDisplay_ResetOnMissing(display, state) ==
  LET sb1 == IF display.statusByte1 # Undefined THEN display.statusByte1 ELSE 0
      sb2 == IF display.statusByte2 # Undefined THEN display.statusByte2 ELSE 0
      s2 == [state EXCEPT
               !.heating = HasBit(sb1, STATUS_HEATING),
               !.auxHi = HasBit(sb1, STATUS_AUX_HI),
               !.jetsLo = HasBit(sb1, STATUS_JETS_LO),
               !.jetsHi = HasBit(sb1, STATUS_JETS_HI),
               !.filtering = HasBit(sb1, STATUS_FILTERING),
               !.edit = HasBit(sb1, STATUS_EDIT),
               !.overheat = HasBit(sb1, STATUS_OVERHEAT),
               !.lastStatusByte1 =
                  IF display.statusByte1 # Undefined THEN sb1 ELSE @,
               !.lightOn = HasBit(sb2, STATUS2_LIGHT),
               !.jets2Hi = HasBit(sb2, STATUS2_JETS2_HI),
               !.jets2Lo = HasBit(sb2, STATUS2_JETS2_LO),
               !.auxLo = HasBit(sb2, STATUS2_AUX_LO)]
  IN  IF display.type = "temp" /\ display.temp # Undefined
      THEN [s2 EXCEPT !.currentTemp = display.temp]
      ELSE s2

\* updateStateFromDisplay that only ever sets a flag and never clears it.
updateStateFromDisplay_SetOnly(display, state) ==
  LET s1 == IF display.statusByte1 # Undefined
            THEN [state EXCEPT
                    !.heating = @ \/ HasBit(display.statusByte1, STATUS_HEATING),
                    !.auxHi = @ \/ HasBit(display.statusByte1, STATUS_AUX_HI),
                    !.jetsLo = @ \/ HasBit(display.statusByte1, STATUS_JETS_LO),
                    !.jetsHi = @ \/ HasBit(display.statusByte1, STATUS_JETS_HI),
                    !.filtering =
                       @ \/ HasBit(display.statusByte1, STATUS_FILTERING),
                    !.edit = @ \/ HasBit(display.statusByte1, STATUS_EDIT),
                    !.overheat =
                       @ \/ HasBit(display.statusByte1, STATUS_OVERHEAT),
                    !.lastStatusByte1 = display.statusByte1]
            ELSE state
      s2 == IF display.statusByte2 # Undefined
            THEN [s1 EXCEPT
                    !.lightOn = @ \/ HasBit(display.statusByte2, STATUS2_LIGHT),
                    !.jets2Hi =
                       @ \/ HasBit(display.statusByte2, STATUS2_JETS2_HI),
                    !.jets2Lo =
                       @ \/ HasBit(display.statusByte2, STATUS2_JETS2_LO),
                    !.auxLo = @ \/ HasBit(display.statusByte2, STATUS2_AUX_LO)]
            ELSE s1
  IN  IF display.type = "temp" /\ display.temp # Undefined
      THEN [s2 EXCEPT !.currentTemp = display.temp]
      ELSE s2

updateStateFromDisplay(display, state) ==
  LET s1 == IF display.statusByte1 # Undefined
            THEN [state EXCEPT
                    !.heating = HasBit(display.statusByte1, STATUS_HEATING),
                    !.auxHi = HasBit(display.statusByte1, STATUS_AUX_HI),
                    !.jetsLo = HasBit(display.statusByte1, STATUS_JETS_LO),
                    !.jetsHi = HasBit(display.statusByte1, STATUS_JETS_HI),
                    !.filtering = HasBit(display.statusByte1, STATUS_FILTERING),
                    !.edit = HasBit(display.statusByte1, STATUS_EDIT),
                    !.overheat = HasBit(display.statusByte1, STATUS_OVERHEAT),
                    !.lastStatusByte1 = display.statusByte1]
            ELSE state
      s2 == IF display.statusByte2 # Undefined
            THEN [s1 EXCEPT
                    !.lightOn = HasBit(display.statusByte2, STATUS2_LIGHT),
                    !.jets2Hi = HasBit(display.statusByte2, STATUS2_JETS2_HI),
                    !.jets2Lo = HasBit(display.statusByte2, STATUS2_JETS2_LO),
                    !.auxLo = HasBit(display.statusByte2, STATUS2_AUX_LO)]
            ELSE s1
  IN  IF display.type = "temp" /\ display.temp # Undefined
      THEN [s2 EXCEPT !.currentTemp = display.temp]
      ELSE s2

\* ----------------------------------------------------------------- median
RECURSIVE SortAsc(_)
\* [...values].sort((a, b) => a - b)
SortAsc(q) ==
  IF q = <<>> THEN <<>>
  ELSE LET i == CHOOSE k \in 1..Len(q) : \A j \in 1..Len(q) : q[k] <= q[j]
           rest == [j \in 1..(Len(q) - 1) |-> IF j < i THEN q[j] ELSE q[j + 1]]
       IN  <<q[i]>> \o SortAsc(rest)

\* median without the sort.
median_NoSort(values) ==
  IF Len(values) = 0 THEN Null
  ELSE LET mid == Len(values) \div 2
       IN  IF Len(values) % 2 # 0
           THEN 2 * values[mid + 1]
           ELSE values[mid] + values[mid + 1]

\* median(values), in half-degrees: twice the middle value of an odd-length
\* list, the sum of the two central values of an even-length list.
median(values) ==
  IF Len(values) = 0 THEN Null
  ELSE LET sorted == SortAsc(values)
           mid == Len(sorted) \div 2
       IN  IF Len(sorted) % 2 # 0
           THEN 2 * sorted[mid + 1]
           ELSE sorted[mid] + sorted[mid + 1]

\* ReadingOf with am taken from bit 6 instead of bit 7.
ReadingOf_WrongAmMask(samples, state) ==
  [currentTemp |-> median(samples),
   heating |-> state.heating, jetsLo |-> state.jetsLo, jetsHi |-> state.jetsHi,
   auxHi |-> state.auxHi, filtering |-> state.filtering,
   lightOn |-> state.lightOn, edit |-> state.edit, overheat |-> state.overheat,
   jets2Hi |-> state.jets2Hi, jets2Lo |-> state.jets2Lo, auxLo |-> state.auxLo,
   am |-> IF state.lastStatusByte1 # Null
          THEN HasBit(state.lastStatusByte1, STATUS_OVERHEAT) ELSE FALSE]

\* The row writeReading hands to insertReading(reading, am).
ReadingOf(samples, state) ==
  [currentTemp |-> median(samples),
   heating |-> state.heating, jetsLo |-> state.jetsLo, jetsHi |-> state.jetsHi,
   auxHi |-> state.auxHi, filtering |-> state.filtering,
   lightOn |-> state.lightOn, edit |-> state.edit, overheat |-> state.overheat,
   jets2Hi |-> state.jets2Hi, jets2Lo |-> state.jets2Lo, auxLo |-> state.auxLo,
   am |-> IF state.lastStatusByte1 # Null
          THEN HasBit(state.lastStatusByte1, STATUS_AM) ELSE FALSE]

\* ------------------------------------------------------------- the state
VARIABLES
  proc,                \* "running" until process.exit, then "exited"
  collectionInterval,  \* the setInterval handle: "set" or "cleared"
  dbOpen,              \* FALSE once closeDatabase has run
  nsess,               \* calls of collectReading so far
  sess,                \* per call of collectReading: its closure and socket
  call,                \* a call of one of the pure functions: its arguments
  ret,                 \* what that call returned, NoRet before it returns
  mon                  \* the continuous monitor: its globals and its socket

vars == <<proc, collectionInterval, dbOpen, nsess, sess, call, ret, mon>>

\* No pure-function call is under way.
NoCall == [fn |-> "none"]
NoRet == [fn |-> "none"]

\* --------------------------------------------------- the continuous monitor
MAX_RECONNECT_ATTEMPTS == 10

\* connect(): a new socket replaces ws and starts its handshake.  sockets
\* counts the sockets that have not reported closed, nconn the calls of
\* connect() so far.
connect(m) ==
  [m EXCEPT !.ws = "connecting", !.sockets = @ + 1, !.nconn = @ + 1]

\* scheduleReconnect with > in place of >= in its give-up test.
scheduleReconnect_OffByOne(m) ==
  IF m.reconnectAttempts > MAX_RECONNECT_ATTEMPTS
  THEN [m EXCEPT !.proc = "exit1"]
  ELSE [m EXCEPT !.reconnectAttempts = @ + 1, !.timers = @ + 1]

\* scheduleReconnect(): gives up with process.exit(1) once the counter has
\* reached the maximum, and otherwise counts the attempt and arms a timer
\* that calls connect().  timers counts the armed reconnect timers.
scheduleReconnect(m) ==
  IF m.reconnectAttempts >= MAX_RECONNECT_ATTEMPTS
  THEN [m EXCEPT !.proc = "exit1"]
  ELSE [m EXCEPT !.reconnectAttempts = @ + 1, !.timers = @ + 1]

\* The monitor after its module has loaded: reconnectAttempts = 0 and the
\* first connect() has run.  closesSinceOpen records the close events since
\* the last open event (since the start, before the first).
StartedMonitor ==
  connect([proc |-> "running", ws |-> "none", reconnectAttempts |-> 0,
           sockets |-> 0, timers |-> 0, nconn |-> 0, closesSinceOpen |-> 0])

SessionIds == 1..MaxSessions

\* A slot whose collectReading call has not happened yet.
NoSession ==
  [ws |-> "none", timeout |-> "none", promise |-> "none", samples |-> <<>>,
   state |-> InitialState, readings |-> <<>>, closeCalled |-> FALSE,
   settledBy |-> "none", samplesAtTimeout |-> Undefined, nmsg |-> 0,
   received |-> <<>>]

\* The body of collectReading up to the registration of the handlers:
\* empty samples, initial state, socket connecting, timeout timer armed.
\* readings (the insertReading calls of this session), closeCalled,
\* settledBy (the handler that settled the promise), samplesAtTimeout (the
\* number of samples when the timer fired), nmsg (messages delivered) and
\* received (those messages, in delivery order) record the session's history.
NewSession ==
  [ws |-> "connecting", timeout |-> "pending", promise |-> "pending",
   samples |-> <<>>, state |-> InitialState, readings |-> <<>>,
   closeCalled |-> FALSE, settledBy |-> "none",
   samplesAtTimeout |-> Undefined, nmsg |-> 0, received |-> <<>>]

\* ---------------------------------------------- the calls of the handlers
\* ws.close(): aborts a handshake in progress, starts the closing handshake
\* of an open socket, and does nothing otherwise.
wsClose(se) ==
  [se EXCEPT !.ws = IF @ = "connecting" THEN "aborting"
                    ELSE IF @ = "open" THEN "closing" ELSE @,
             !.closeCalled = TRUE]

clearTimeout(se) ==
  [se EXCEPT !.timeout = IF @ = "pending" THEN "cleared" ELSE @]

\* resolve(): settles the promise unless it is settled already.
resolve(se, by) ==
  IF se.promise = "pending"
  THEN [se EXCEPT !.promise = "resolved", !.settledBy = by]
  ELSE se

\* reject(error): settles the promise unless it is settled already.
reject(se, by) ==
  IF se.promise = "pending"
  THEN [se EXCEPT !.promise = "rejected", !.settledBy = by]
  ELSE se

\* writeReading(samples, state): one insertReading call.
writeReading(se) ==
  [se EXCEPT !.readings = Append(@, ReadingOf(se.samples, se.state))]

\* -------------------------------------------------------------- messages
\* A WebSocket message: not JSON, JSON without dsp, JSON whose dsp is a
\* truthy non-string, or JSON whose dsp is the hex string m.dsp.
Msg(kind, dsp) == [kind |-> kind, dsp |-> dsp]

T97 == Msg("string", Hex(<<241, 7, 111, 0, 0, 0>>))
T99 == Msg("string", Hex(<<241, 111, 111, 0, 68, 0>>))
T98 == Msg("string", Hex(<<241, 127, 111, 0, 133, 16>>))
BlankMsg == Msg("string", Hex(<<0, 0, 0, 0, 0, 0>>))
NonJson == Msg("nonjson", <<>>)
NoDsp == Msg("nodsp", <<>>)
NonString == Msg("nonstring", <<>>)
ShortTemp == Msg("string", Hex(<<241, 127, 111, 0>>))

\* The messages a session of Spec may receive.
SessionMsgs == {T97, T99, T98, BlankMsg, NonJson, NoDsp, NonString, ShortTemp}

\* The messages a session of LiveSpec may receive.
LiveMsgs == {T97, T99, T98, BlankMsg, NonJson}

\* The messages a session of SchedSpec may receive.
SchedMsgs == {T98}

\* The messages a session of CarrySpec may receive.
CarryMsgs == {T98, T99, BlankMsg}

\* -------------------------------------------------------------- handlers
\* ws.on("open"): logs only.
OnOpen(se) == se

\* OnMessage with the padding of a 10-character dsp left out.
OnMessage_NoPadding(se, m) ==
  IF m.kind # "string" \/ m.dsp = <<>> THEN se
  ELSE
    LET display == parseDisplayData(m.dsp)
        s1 == [se EXCEPT !.state = updateStateFromDisplay(display, se.state)]
        s2 == [s1 EXCEPT !.samples = Append(@, display.temp)]
    IN  IF display.type = "temp" /\ display.temp # Undefined
        THEN IF Len(s2.samples) >= SAMPLE_COUNT
             THEN resolve(writeReading(wsClose(clearTimeout(s2))), "count")
             ELSE s2
        ELSE s1

\* OnMessage with the clearTimeout of the sample-count completion left out.
OnMessage_NoClearTimeout(se, m) ==
  IF m.kind # "string" \/ m.dsp = <<>> THEN se
  ELSE
    LET dspData == IF Len(m.dsp) = 10 THEN m.dsp \o <<0, 0>> ELSE m.dsp
        display == parseDisplayData(dspData)
        s1 == [se EXCEPT !.state = updateStateFromDisplay(display, se.state)]
        s2 == [s1 EXCEPT !.samples = Append(@, display.temp)]
    IN  IF display.type = "temp" /\ display.temp # Undefined
        THEN IF Len(s2.samples) >= SAMPLE_COUNT
             THEN resolve(writeReading(wsClose(s2)), "count")
             ELSE s2
        ELSE s1

\* ws.on("message"): JSON.parse, the dsp test and padding, decode, merge,
\* sample collection and the sample-count completion.  A message that is
\* not JSON, has no (or an empty) dsp, or makes parseDisplayData throw
\* (a dsp that is not a string) changes nothing.
OnMessage(se, m) ==
  IF m.kind # "string" \/ m.dsp = <<>> THEN se
  ELSE
    LET dspData == IF Len(m.dsp) = 10 THEN m.dsp \o <<0, 0>> ELSE m.dsp
        display == parseDisplayData(dspData)
        s1 == [se EXCEPT !.state = updateStateFromDisplay(display, se.state)]
        s2 == [s1 EXCEPT !.samples = Append(@, display.temp)]
    IN  IF display.type = "temp" /\ display.temp # Undefined
        THEN IF Len(s2.samples) >= SAMPLE_COUNT
             THEN resolve(writeReading(wsClose(clearTimeout(s2))), "count")
             ELSE s2
        ELSE s1

\* OnTimeout with the final resolve() left out.
OnTimeout_NoResolve(se) ==
  LET s1 == wsClose(se)
  IN  IF Len(s1.samples) > 0 THEN writeReading(s1) ELSE s1

\* The setTimeout callback.
OnTimeout(se) ==
  LET s1 == wsClose(se)
      s2 == IF Len(s1.samples) > 0 THEN writeReading(s1) ELSE s1
  IN  resolve(s2, "timeout")

\* OnClose that writes a Reading of the samples collected so far.
OnClose_WritesReading(se) ==
  LET s1 == clearTimeout(se)
  IN  resolve(IF Len(s1.samples) > 0 THEN writeReading(s1) ELSE s1, "close")

\* OnClose with the clearTimeout left out.
OnClose_NoClearTimeout(se) == resolve(se, "close")

\* ws.on("close")
OnClose(se) == resolve(clearTimeout(se), "close")

\* ws.on("error"); runCollection catches the rejection and logs it.
OnError(se) == reject(clearTimeout(se), "error")

\* --------------------------------------------------------------- actions
\* The transport reports opened.
Open(s) ==
  /\ proc = "running"
  /\ sess[s].ws = "connecting"
  /\ sess' = [sess EXCEPT ![s] = OnOpen([@ EXCEPT !.ws = "open"])]
  /\ UNCHANGED <<proc, collectionInterval, dbOpen, nsess, call, ret, mon>>

\* The transport delivers message m: while the socket is open, and while it
\* is closing, until the close handshake completes.
Message(s, m) ==
  /\ proc = "running"
  /\ sess[s].ws \in {"open", "closing"}
  /\ sess[s].nmsg < MaxFrames
  /\ sess' = [sess EXCEPT ![s] =
                OnMessage([@ EXCEPT !.nmsg = @ + 1,
                                    !.received = Append(@, m)], m)]
  /\ UNCHANGED <<proc, collectionInterval, dbOpen, nsess, call, ret, mon>>

\* The timeout timer fires.
Timeout(s) ==
  /\ proc = "running"
  /\ sess[s].timeout = "pending"
  /\ sess' = [sess EXCEPT ![s] =
                OnTimeout([@ EXCEPT !.timeout = "fired",
                                    !.samplesAtTimeout = Len(sess[s].samples)])]
  /\ UNCHANGED <<proc, collectionInterval, dbOpen, nsess, call, ret, mon>>

\* The transport reports an error: a failed or aborted handshake, or a
\* failure of an established connection.  No message follows an error.
Error(s) ==
  /\ proc = "running"
  /\ sess[s].ws \in {"connecting", "aborting", "open", "closing"}
  /\ sess' = [sess EXCEPT ![s] = OnError([@ EXCEPT !.ws = "errored"])]
  /\ UNCHANGED <<proc, collectionInterval, dbOpen, nsess, call, ret, mon>>

\* The transport reports closed.
Close(s) ==
  /\ proc = "running"
  /\ sess[s].ws \in {"open", "closing", "errored"}
  /\ sess' = [sess EXCEPT ![s] = OnClose([@ EXCEPT !.ws = "closed"])]
  /\ UNCHANGED <<proc, collectionInterval, dbOpen, nsess, call, ret, mon>>

\* IntervalTick with a state that is shared by the sessions instead of
\* being a local of collectReading: the new session goes on from the state
\* the session before has left.
IntervalTick_SharedState ==
  /\ proc = "running"
  /\ collectionInterval = "set"
  /\ nsess < MaxSessions
  /\ nsess' = nsess + 1
  /\ sess' = [sess EXCEPT ![nsess + 1] =
                [NewSession EXCEPT !.state = sess[nsess].state]]
  /\ UNCHANGED <<proc, collectionInterval, dbOpen, call, ret, mon>>

\* The interval timer fires: runCollection() calls collectReading().
IntervalTick ==
  /\ proc = "running"
  /\ collectionInterval = "set"
  /\ nsess < MaxSessions
  /\ nsess' = nsess + 1
  /\ sess' = [sess EXCEPT ![nsess + 1] = NewSession]
  /\ UNCHANGED <<proc, collectionInterval, dbOpen, call, ret, mon>>

\* SIGINT or SIGTERM: shutdown().
Shutdown ==
  /\ proc = "running"
  /\ collectionInterval' = "cleared"
  /\ dbOpen' = FALSE
  /\ proc' = "exited"
  /\ UNCHANGED <<nsess, sess, call, ret, mon>>

\* -------------------------------------------------------- specifications
\* After the module has loaded: the initial runCollection() has called
\* collectReading() and the interval timer is set.
Init ==
  /\ proc = "running"
  /\ collectionInterval = "set"
  /\ dbOpen = TRUE
  /\ nsess = 1
  /\ sess = [s \in SessionIds |-> IF s = 1 THEN NewSession ELSE NoSession]
  /\ call = NoCall
  /\ ret = NoRet
  /\ mon = StartedMonitor

\* One collection session, with every message of SessionMsgs, and shutdown.
Next ==
  \/ \E s \in SessionIds : Open(s)
  \/ \E s \in SessionIds : \E m \in SessionMsgs : Message(s, m)
  \/ \E s \in SessionIds : Timeout(s)
  \/ \E s \in SessionIds : Error(s)
  \/ \E s \in SessionIds : Close(s)
  \/ Shutdown

Spec == Init /\ [][Next]_vars

\* The session without shutdown, with a timeout timer that fires if it
\* stays pending.
LiveNext ==
  \/ \E s \in SessionIds : Open(s)
  \/ \E s \in SessionIds : \E m \in LiveMsgs : Message(s, m)
  \/ \E s \in SessionIds : Timeout(s)
  \/ \E s \in SessionIds : Error(s)
  \/ \E s \in SessionIds : Close(s)

LiveSpec ==
  Init /\ [][LiveNext]_vars /\ \A s \in SessionIds : WF_vars(Timeout(s))

\* The scheduler: the interval timer starts further sessions.
SchedNext ==
  \/ IntervalTick
  \/ \E s \in SessionIds : Open(s)
  \/ \E s \in SessionIds : \E m \in SchedMsgs : Message(s, m)
  \/ \E s \in SessionIds : Timeout(s)
  \/ \E s \in SessionIds : Error(s)
  \/ \E s \in SessionIds : Close(s)
  \/ Shutdown

SchedSpec == Init /\ [][SchedNext]_vars

RECURSIVE FramesUpTo(_)
\* The messages delivered so far to the sessions 1..n together.
FramesUpTo(n) == IF n = 0 THEN 0 ELSE sess[n].nmsg + FramesUpTo(n - 1)

\* A message of CarryMsgs, while fewer than MaxFrames have been delivered
\* to all sessions together.
CarryMessage(s, m) == FramesUpTo(MaxSessions) < MaxFrames /\ Message(s, m)

\* The scheduler with sessions that receive frames with different status
\* bytes: the interval timer starts a session whatever the state of the
\* sessions before it.
CarryNext ==
  \/ IntervalTick
  \/ \E s \in SessionIds : Open(s)
  \/ \E s \in SessionIds : \E m \in CarryMsgs : CarryMessage(s, m)
  \/ \E s \in SessionIds : Timeout(s)
  \/ \E s \in SessionIds : Error(s)
  \/ \E s \in SessionIds : Close(s)
  \/ Shutdown

CarrySpec == Init /\ [][CarryNext]_vars

\* ------------------------------------------- the monitor's reconnect loop
\* ws.on("open") of the monitor: the counter restarts.
MonOpen ==
  /\ mon.proc = "running"
  /\ mon.ws = "connecting"
  /\ mon' = [mon EXCEPT !.ws = "open", !.reconnectAttempts = 0,
                        !.closesSinceOpen = 0]
  /\ UNCHANGED <<proc, collectionInterval, dbOpen, nsess, sess, call, ret>>

\* ws.on("error") of the monitor: logs only; the close event follows.
MonError ==
  /\ mon.proc = "running"
  /\ mon.ws \in {"connecting", "open"}
  /\ mon' = [mon EXCEPT !.ws = "errored"]
  /\ UNCHANGED <<proc, collectionInterval, dbOpen, nsess, sess, call, ret>>

\* ws.on("close") of the monitor: scheduleReconnect().
MonClose ==
  /\ mon.proc = "running"
  /\ mon.ws \in {"open", "errored"}
  /\ mon' = scheduleReconnect([mon EXCEPT !.ws = "closed", !.sockets = @ - 1,
                                          !.closesSinceOpen = @ + 1])
  /\ UNCHANGED <<proc, collectionInterval, dbOpen, nsess, sess, call, ret>>

\* A reconnect timer fires: connect().
MonReconnect ==
  /\ mon.proc = "running"
  /\ mon.timers > 0
  /\ mon.nconn < MaxConnects
  /\ mon' = connect([mon EXCEPT !.timers = @ - 1])
  /\ UNCHANGED <<proc, collectionInterval, dbOpen, nsess, sess, call, ret>>

\* SIGINT or SIGTERM in the monitor: ws.close() and process.exit(0).
MonShutdown ==
  /\ mon.proc = "running"
  /\ mon' = [mon EXCEPT !.ws = IF @ = "connecting" THEN "aborting"
                              ELSE IF @ = "open" THEN "closing" ELSE @,
                        !.proc = "exit0"]
  /\ UNCHANGED <<proc, collectionInterval, dbOpen, nsess, sess, call, ret>>

MonNext ==
  \/ MonOpen
  \/ MonError
  \/ MonClose
  \/ MonReconnect
  \/ MonShutdown

\* The continuous monitor on its own.
MonSpec == Init /\ [][MonNext]_vars

\* ---------------------------------------------------- the pure functions
\* Frames handed to parseDisplayData.  With the Fahrenheit code in byte 0:
\* every digit code, letter codes and codes of neither table in bytes 1 to
\* 3, with and without bit 7.  With another byte 0: digit codes, letter
\* codes and codes of neither table.
FahrenheitBytes == {113, 241}
DigitByteValues ==
  {0, 63, 6, 91, 79, 102, 109, 125, 7, 127, 111, 134, 239, 92, 57, 1}
Byte3Values == {0, 6, 134, 63, 91, 121, 92, 1}
OtherByte0Values == {0, 84, 63, 1}
OtherByteValues == {0, 63, 92, 57, 1, 134}
OtherByte3Values == {0, 6, 121, 1}
ParseStatusPairs == {<<0, 0>>, <<133, 16>>}

ParseFrames ==
  {Hex(<<b0, b1, b2, b3>> \o sp) :
     b0 \in FahrenheitBytes, b1 \in DigitByteValues, b2 \in DigitByteValues,
     b3 \in Byte3Values, sp \in ParseStatusPairs}
    \cup {Hex(<<b0, b1, b2, b3>> \o sp) :
            b0 \in OtherByte0Values, b1 \in OtherByteValues,
            b2 \in OtherByteValues, b3 \in OtherByte3Values,
            sp \in ParseStatusPairs}

\* Frames whose bytes 0 to 3 are letter codes (o, n, L, F, E, C, H, and F
\* with bit 7) or the digit code of 1.
LetterByteValues == {92, 84, 56, 113, 121, 57, 118, 241, 6}
LetterFrames ==
  {Hex(<<b0, b1, b2, b3, 133, 16>>) :
     b0 \in LetterByteValues, b1 \in LetterByteValues,
     b2 \in LetterByteValues, b3 \in LetterByteValues}

\* Frames handed to the merge: one display of each kind, with every value
\* of status byte A and every value of status byte B.
MergeBases ==
  {<<241, 127, 111, 0>>, <<91, 219, 135, 0>>, <<84, 92, 57, 121>>,
   <<1, 1, 1, 1>>, <<92, 56, 0, 0>>, <<0, 0, 0, 0>>}
StatusPairs ==
  {<<a, b>> : a \in 0..255, b \in {0, 240}}
    \cup {<<a, b>> : a \in {0, 191}, b \in 0..255}
MergeFrames == {Hex(base \o sp) : base \in MergeBases, sp \in StatusPairs}

\* States a session can be in when a frame arrives: the initial state, and
\* the state after a status-carrying frame.
PriorFrames ==
  {Hex(<<241, 127, 111, 0, 255, 255>>), Hex(<<241, 111, 111, 0, 4, 0>>),
   Hex(<<91, 219, 135, 0, 133, 16>>)}
PriorStates ==
  {InitialState}
    \cup {updateStateFromDisplay(parseDisplayData(f), InitialState) :
            f \in PriorFrames}

\* The delivery of message m to a session: what the Message action does to
\* the session's record.
Deliver(se, m) ==
  OnMessage([se EXCEPT !.nmsg = @ + 1, !.received = Append(@, m)], m)

RECURSIVE DeliverAll(_, _)
DeliverAll(se, ms) ==
  IF ms = <<>> THEN se ELSE DeliverAll(Deliver(se, Head(ms)), Tail(ms))

\* Open sessions a 10-character frame can arrive in: a fresh one, and ones
\* that have merged status bytes with the byte-5 flags set.
TAllFlags == Msg("string", Hex(<<241, 127, 111, 0, 255, 240>>))
PriorDeliveries == {<<>>, <<T98>>, <<TAllFlags>>, <<T98, T99>>}
OpenSessions ==
  {DeliverAll(OnOpen([NewSession EXCEPT !.ws = "open"]), ms) :
     ms \in PriorDeliveries}

\* 10-character dsp values: one display of each kind with a status byte A.
PadStatusValues == {0, 133, 255}
PadMsgs ==
  {Msg("string", Hex(base \o <<a>>)) :
     base \in MergeBases, a \in PadStatusValues}

SampleValues == {97, 98, 99}
SampleLists == UNION {[1..n -> SampleValues] : n \in 0..MaxValues}

Calls ==
  {[fn |-> "decodeDigit", byte |-> b] : b \in 0..255}
    \cup {[fn |-> "parseDisplayData", hexString |-> f] :
            f \in ParseFrames \cup MergeFrames \cup LetterFrames}
    \cup {[fn |-> "updateStateFromDisplay", hexString |-> f, state |-> st] :
            f \in MergeFrames, st \in PriorStates}
    \cup {[fn |-> "median", values |-> q] : q \in SampleLists}
    \cup {[fn |-> "onMessage", se |-> se, m |-> m] :
            se \in OpenSessions, m \in PadMsgs}

\* decodeDigit(byte) returns.
CallDecodeDigit ==
  /\ call.fn = "decodeDigit" /\ ret = NoRet
  /\ ret' = [fn |-> "decodeDigit", value |-> decodeDigit(call.byte)]
  /\ UNCHANGED <<proc, collectionInterval, dbOpen, nsess, sess, call, mon>>

\* parseDisplayData(hexString) returns.
CallParseDisplayData ==
  /\ call.fn = "parseDisplayData" /\ ret = NoRet
  /\ ret' = [fn |-> "parseDisplayData",
             display |-> parseDisplayData(call.hexString)]
  /\ UNCHANGED <<proc, collectionInterval, dbOpen, nsess, sess, call, mon>>

\* updateStateFromDisplay(parseDisplayData(hexString), state) returns.
CallUpdateState ==
  /\ call.fn = "updateStateFromDisplay" /\ ret = NoRet
  /\ ret' = [fn |-> "updateStateFromDisplay",
             state |-> updateStateFromDisplay(
                         parseDisplayData(call.hexString), call.state)]
  /\ UNCHANGED <<proc, collectionInterval, dbOpen, nsess, sess, call, mon>>

\* median(values) returns; values is the caller's list after the call
\* (median sorts a copy, [...values]).
CallMedian ==
  /\ call.fn = "median" /\ ret = NoRet
  /\ ret' = [fn |-> "median", value |-> median(call.values),
             values |-> call.values]
  /\ UNCHANGED <<proc, collectionInterval, dbOpen, nsess, sess, call, mon>>

\* The message handler returns from message call.m, delivered to a session
\* in state call.se.
CallOnMessage ==
  /\ call.fn = "onMessage" /\ ret = NoRet
  /\ ret' = [fn |-> "onMessage", se |-> Deliver(call.se, call.m)]
  /\ UNCHANGED <<proc, collectionInterval, dbOpen, nsess, sess, call, mon>>

PureInit ==
  /\ proc = "running"
  /\ collectionInterval = "set"
  /\ dbOpen = TRUE
  /\ nsess = 1
  /\ sess = [s \in SessionIds |-> IF s = 1 THEN NewSession ELSE NoSession]
  /\ call \in Calls
  /\ ret = NoRet
  /\ mon = StartedMonitor

PureNext ==
  \/ CallDecodeDigit
  \/ CallParseDisplayData
  \/ CallUpdateState
  \/ CallMedian
  \/ CallOnMessage

\* One call of a pure function on one input of Calls.
PureSpec == PureInit /\ [][PureNext]_vars

TypeOK ==
  /\ proc \in {"running", "exited"}
  /\ collectionInterval \in {"set", "cleared"}
  /\ dbOpen \in BOOLEAN
  /\ nsess \in 1..MaxSessions
  /\ \A s \in SessionIds :
       /\ sess[s].ws \in {"none", "connecting", "open", "closing", "aborting",
                          "errored", "closed"}
       /\ sess[s].timeout \in {"none", "pending", "fired", "cleared"}
       /\ sess[s].promise \in {"none", "pending", "resolved", "rejected"}
       /\ sess[s].nmsg \in 0..MaxFrames
       /\ (s > nsess) = (sess[s] = NoSession)

\* ---------------------------------------------------------------- claims
\* The promise of collectReading has settled: the session is Closed.
Settled(s) == sess[s].promise \in {"resolved", "rejected"}

\* The session has finalized: its Reading was written or its timeout fired.
Finalized(s) == Len(sess[s].readings) > 0 \/ sess[s].timeout = "fired"

\* C1: every session hands exactly one Reading to insertReading: a settled
\* session has written one Reading, and no session ever writes a second.
C1_ExactlyOneReading ==
  \A s \in SessionIds :
    /\ Settled(s) => Len(sess[s].readings) = 1
    /\ Len(sess[s].readings) <= 1

\* C2: once a session has finalized, no later step appends a sample,
\* changes the session state or writes another Reading.
C2_LateEventsIgnored ==
  [][\A s \in SessionIds :
       Finalized(s) => /\ sess'[s].samples = sess[s].samples
                       /\ sess'[s].state = sess[s].state
                       /\ sess'[s].readings = sess[s].readings]_vars

\* C3: when the timeout fired in a session that received no Temperature
\* frame, the session has written exactly one Reading, with temperature null.
C3_TimeoutWithoutSamples ==
  \A s \in SessionIds :
    (sess[s].timeout = "fired" /\ sess[s].samples = <<>>)
      => /\ Len(sess[s].readings) = 1
         /\ sess[s].readings[1].currentTemp = Null

\* C4: when the transport reported closed while the session was collecting
\* fewer than 3 samples, the session has written one Reading whose
\* temperature is the median of the samples collected.
C4_CloseMidCollection ==
  \A s \in SessionIds :
    (sess[s].settledBy = "close" /\ Len(sess[s].samples) < SAMPLE_COUNT)
      => /\ Len(sess[s].readings) = 1
         /\ sess[s].readings[1].currentTemp = median(sess[s].samples)

\* C5: when the transport reported an error during the session, the session
\* has written one Reading: temperature null without samples, else their
\* median.
C5_ErrorStillFinalizes ==
  \A s \in SessionIds :
    sess[s].settledBy = "error"
      => /\ Len(sess[s].readings) = 1
         /\ sess[s].readings[1].currentTemp = median(sess[s].samples)

\* C6: when exactly 3 Temperature frames were received and the timeout had
\* not fired before the third, the session has written exactly one Reading,
\* its temperature is the median of the 3 values, and the timer is canceled
\* (so it has not fired and cannot fire).
C6_ThreeSamples ==
  \A s \in SessionIds :
    (/\ Len(sess[s].samples) = SAMPLE_COUNT
     /\ sess[s].samplesAtTimeout \in {Undefined, SAMPLE_COUNT})
      => /\ Len(sess[s].readings) = 1
         /\ sess[s].readings[1].currentTemp = median(sess[s].samples)
         /\ sess[s].timeout = "cleared"

\* Three samples out of order, one Reading with their median 98, and the
\* timer canceled.
C6_Witness ==
  \E s \in SessionIds :
    /\ sess[s].samples = <<97, 99, 98>>
    /\ Len(sess[s].readings) = 1
    /\ sess[s].readings[1].currentTemp = 2 * 98
    /\ sess[s].timeout = "cleared"

\* C7: every session eventually settles its promise, whatever the transport
\* does, given that a pending timeout timer fires; and once settled the
\* promise never changes again.
C7_AlwaysCloses ==
  /\ \A s \in SessionIds : (sess[s].promise = "pending") ~> Settled(s)
  /\ [][\A s \in SessionIds :
          Settled(s) => /\ sess'[s].promise = sess[s].promise
                        /\ sess'[s].settledBy = sess[s].settledBy]_vars

\* A session settled by the timeout although the transport never opened and
\* never delivered a message.
C7_Witness ==
  \E s \in SessionIds :
    /\ sess[s].settledBy = "timeout"
    /\ sess[s].nmsg = 0
    /\ sess[s].ws \in {"aborting", "errored", "closed"}

\* C8: at most one session is in flight (started and not settled) at any
\* time.
C8_SingleSessionInFlight ==
  Cardinality({s \in SessionIds : sess[s].promise = "pending"}) <= 1

\* C9: the step that exits the process leaves no in-flight session with a
\* pending timeout timer or without a transport close request, and no
\* session starts once the process has exited.
C9_ShutdownCancelsSession ==
  [][/\ (proc = "running" /\ proc' = "exited")
          => \A s \in SessionIds :
               sess[s].promise = "pending"
                 => sess'[s].timeout # "pending" /\ sess'[s].closeCalled
     /\ proc = "exited" => nsess' = nsess]_vars

\* C10: a settled session has no pending timeout timer, and a session ended
\* by the timeout or by the sample count has requested transport close.
C10_LosingTriggerCanceled ==
  \A s \in SessionIds :
    /\ Settled(s) => sess[s].timeout # "pending"
    /\ sess[s].settledBy \in {"timeout", "count"} => sess[s].closeCalled

\* A session ended by the transport's close while the timer was pending:
\* the timer, the losing trigger, is canceled.
C10_Witness ==
  \E s \in SessionIds :
    /\ sess[s].settledBy = "close"
    /\ sess[s].timeout = "cleared"
    /\ Len(sess[s].samples) > 0

\* ------------------------------------------- claims on the pure functions
\* Bit k of byte x.
Bit(x, k) == (x \div (2 ^ k)) % 2 = 1

\* The digit the spec's table gives for the low 7 bits of byte b; Null for
\* "no value".
ExpectedDigit(b) ==
  LET code == b % 128
      table == {<<0, 0>>, <<63, 0>>, <<6, 1>>, <<91, 2>>, <<79, 3>>, <<102, 4>>,
                <<109, 5>>, <<125, 6>>, <<7, 7>>, <<127, 8>>, <<111, 9>>}
  IN  IF \E e \in table : e[1] = code
      THEN (CHOOSE e \in table : e[1] = code)[2]
      ELSE Null

\* The boolean flags of a CollectionState.
FlagsOf(st) ==
  <<st.heating, st.auxHi, st.jetsLo, st.jetsHi, st.filtering, st.edit,
    st.overheat, st.lightOn, st.jets2Hi, st.jets2Lo, st.auxLo>>

\* The call of function fn has returned.
Returned(fn) == call.fn = fn /\ ret.fn = fn

\* C11: merging a frame that carries no status bytes (a Blank frame, or an
\* Unknown frame of the letter-text rule) leaves every flag, lastStatusByte1
\* and currentTemp as they were.
C11_StickyWithoutStatus ==
  Returned("updateStateFromDisplay") =>
    LET d == parseDisplayData(call.hexString)
    IN  (d.type = "blank"
           \/ (d.type = "unknown" /\ IsLetterText(BytesOf(call.hexString))))
          => ret.state = call.state

\* jetsLo set by an earlier frame is still set after a Blank frame.
C11_Witness ==
  /\ Returned("updateStateFromDisplay")
  /\ call.hexString = Hex(<<0, 0, 0, 0, 0, 0>>)
  /\ call.state.jetsLo
  /\ ret.state.jetsLo

\* C12: after merging a frame that carries status bytes, each flag equals
\* its bit of that frame: byte 4 bit 0 heating, 1 auxHi, 2 jetsLo, 3 jetsHi,
\* 4 filtering, 5 edit; byte 5 bit 4 lightOn, 5 jets2Hi, 6 jets2Lo, 7 auxLo.
C12_FlagsFollowBits ==
  Returned("updateStateFromDisplay") =>
    LET d == parseDisplayData(call.hexString)
        a == BytesOf(call.hexString)[5]
        b == BytesOf(call.hexString)[6]
    IN  (d.type \in {"temp", "time", "eco"}
           \/ (d.type = "unknown" /\ d.statusByte1 # Undefined))
          => /\ ret.state.heating = Bit(a, 0)
             /\ ret.state.auxHi = Bit(a, 1)
             /\ ret.state.jetsLo = Bit(a, 2)
             /\ ret.state.jetsHi = Bit(a, 3)
             /\ ret.state.filtering = Bit(a, 4)
             /\ ret.state.edit = Bit(a, 5)
             /\ ret.state.lightOn = Bit(b, 4)
             /\ ret.state.jets2Hi = Bit(b, 5)
             /\ ret.state.jets2Lo = Bit(b, 6)
             /\ ret.state.auxLo = Bit(b, 7)

\* A Time frame whose bits are 0 clears jetsLo and auxLo set by an earlier
\* frame.
C12_Witness ==
  /\ Returned("updateStateFromDisplay")
  /\ call.hexString = Hex(<<91, 219, 135, 0, 0, 0>>)
  /\ call.state.jetsLo /\ call.state.auxLo
  /\ ~ret.state.jetsLo /\ ~ret.state.auxLo

\* The frame with bit 6 of byte 4 and bits 0..3 of byte 5 cleared.
ClearReserved(h) ==
  LET bs == BytesOf(h)
      a == bs[5]
      b == bs[6]
  IN  Hex(<<bs[1], bs[2], bs[3], bs[4],
            IF Bit(a, 6) THEN a - 64 ELSE a, b - (b % 16)>>)

\* C13: the reserved bits map to no flag: a frame and the same frame with
\* bit 6 of byte 4 and bits 0..3 of byte 5 cleared give the same flags.
C13_ReservedBitsUnmapped ==
  Returned("updateStateFromDisplay") =>
    FlagsOf(ret.state)
      = FlagsOf(updateStateFromDisplay(
                  parseDisplayData(ClearReserved(call.hexString)), call.state))

\* C14: a frame with the Fahrenheit code in byte 0 whose tens and ones
\* decode to a value in [45,99] is a Temperature of that value; one whose
\* hundreds digit is 1 and whose value 100+tens*10+ones is in [100,106] is a
\* Temperature of that value; statusByte1 is byte 4 and statusByte2 byte 5.
C14_TemperatureValue ==
  Returned("parseDisplayData") =>
    LET bs == BytesOf(call.hexString)
        hundreds == ExpectedDigit(bs[4])
        tens == ExpectedDigit(bs[3])
        ones == ExpectedDigit(bs[2])
        IsTemp(v) == /\ ret.display.type = "temp"
                     /\ ret.display.temp = v
                     /\ ret.display.statusByte1 = bs[5]
                     /\ ret.display.statusByte2 = bs[6]
    IN  (bs[1] % 128 = 113 /\ tens # Null /\ ones # Null)
          => /\ (tens * 10 + ones \in 45..99) => IsTemp(tens * 10 + ones)
             /\ (hundreds = 1 /\ 100 + tens * 10 + ones \in 100..106)
                  => IsTemp(100 + tens * 10 + ones)

\* f17d3f06 8510 is the Temperature 106 with its two status bytes.
C14_Witness ==
  /\ Returned("parseDisplayData")
  /\ call.hexString = Hex(<<241, 125, 63, 6, 133, 16>>)
  /\ ret.display = Display("temp", 106, 133, 16)

\* C15: with the Fahrenheit code in byte 0, a hundreds digit of 1 and
\* decodable tens and ones, the only Temperature accepted is
\* 100+tens*10+ones within [100,106]: never the two-digit value.
C15_HundredsExcludesTwoDigit ==
  Returned("parseDisplayData") =>
    LET bs == BytesOf(call.hexString)
        tens == ExpectedDigit(bs[3])
        ones == ExpectedDigit(bs[2])
    IN  (/\ bs[1] % 128 = 113
         /\ ExpectedDigit(bs[4]) = 1 /\ tens # Null /\ ones # Null
         /\ ret.display.type = "temp")
          => /\ ret.display.temp = 100 + tens * 10 + ones
             /\ ret.display.temp \in 100..106

\* C16: a frame whose first five bytes are zero is Blank without status
\* bytes, whatever byte 5 is; a frame whose first four bytes are 54 5c 39 79
\* is Eco with statusByte1 = byte 4 and statusByte2 = byte 5.
C16_FixedPatternsWin ==
  Returned("parseDisplayData") =>
    LET bs == BytesOf(call.hexString)
    IN  /\ (\A i \in 1..5 : bs[i] = 0)
            => ret.display = Display("blank", Undefined, Undefined, Undefined)
        /\ (bs[1] = 84 /\ bs[2] = 92 /\ bs[3] = 57 /\ bs[4] = 121)
            => ret.display = Display("eco", Undefined, bs[5], bs[6])

\* 000000000010, which the digit rules would read as the time 0:00, is
\* Blank.
C16_Witness ==
  /\ Returned("parseDisplayData")
  /\ call.hexString = Hex(<<0, 0, 0, 0, 0, 16>>)
  /\ ret.display.type = "blank"
  /\ ret.display.statusByte1 = Undefined

\* C17: decodeDigit returns the table's digit for the low 7 bits of the
\* byte, whatever bit 7 is, and no value for every other code.
C17_DecodeDigitTable ==
  Returned("decodeDigit") => ret.value = ExpectedDigit(call.byte)

\* 0xef, the code of 9 with bit 7 set, decodes to 9.
C17_Witness ==
  /\ Returned("decodeDigit")
  /\ call.byte = 239
  /\ ret.value = 9

\* A payload the specification has the session ignore: not JSON, without a
\* dsp field, with a dsp that is not a string, or with a dsp string of
\* neither 10 nor 12 hex characters.  (The message handler itself ignores
\* the first three and an empty dsp; its only length test is the padding
\* of a dsp of 10 characters.)
Malformed(m) == m.kind # "string" \/ Len(m.dsp) \notin {10, 12}

\* C18: the delivery of a malformed payload leaves the sample list, the
\* session state (flags, currentTemp, lastStatusByte1) and the Readings
\* written as they were.
C18_MalformedIgnored ==
  [][\A s \in SessionIds :
       (/\ Len(sess'[s].received) = Len(sess[s].received) + 1
        /\ Malformed(sess'[s].received[Len(sess'[s].received)]))
         => /\ sess'[s].samples = sess[s].samples
            /\ sess'[s].state = sess[s].state
            /\ sess'[s].readings = sess[s].readings]_vars

\* The k-th smallest element of the non-empty list q.
KthSmallest(q, k) ==
  CHOOSE x \in {q[i] : i \in 1..Len(q)} :
    /\ Cardinality({i \in 1..Len(q) : q[i] < x}) < k
    /\ k <= Cardinality({i \in 1..Len(q) : q[i] <= x})

\* The median the spec defines, in half-degrees.
ExpectedMedian(q) ==
  IF Len(q) = 0 THEN Null
  ELSE IF Len(q) % 2 = 1 THEN 2 * KthSmallest(q, (Len(q) + 1) \div 2)
  ELSE KthSmallest(q, Len(q) \div 2) + KthSmallest(q, Len(q) \div 2 + 1)

\* C19: median is null for an empty list, the middle value in ascending
\* order for an odd-length list and the mean of the two central values for
\* an even-length list, whatever the order of the input, and it leaves the
\* caller's list as it was.
C19_Median ==
  Returned("median") =>
    /\ ret.value = ExpectedMedian(call.values)
    /\ ret.values = call.values

\* median([97, 99, 98]) = 98
C19_Witness ==
  /\ Returned("median")
  /\ call.values = <<97, 99, 98>>
  /\ ret.value = 2 * 98

\* The frame the message handler decodes for message m: its dsp, padded
\* with 00 when it has 10 hex characters.
FrameOf(m) == IF Len(m.dsp) = 10 THEN m.dsp \o <<0, 0>> ELSE m.dsp

\* Message m carries a status byte A.
CarriesStatusA(m) ==
  /\ m.kind = "string" /\ m.dsp # <<>>
  /\ parseDisplayData(FrameOf(m)).statusByte1 # Undefined

\* Bit 7 of the status byte A of the most recent message of rcv that carries
\* one; FALSE when none does.
ExpectedAm(rcv) ==
  LET carriers == {i \in 1..Len(rcv) : CarriesStatusA(rcv[i])}
      last == CHOOSE i \in carriers : \A j \in carriers : j <= i
  IN  IF carriers = {} THEN FALSE
      ELSE BytesOf(FrameOf(rcv[last]))[5] >= 128

\* C20: the am flag of every Reading written is bit 7 of the most recent
\* status byte A the session had received when it was written, and FALSE
\* when it had received none.
C20_AmFromLastStatusA ==
  [][\A s \in SessionIds :
       Len(sess'[s].readings) > Len(sess[s].readings)
         => sess'[s].readings[Len(sess'[s].readings)].am
              = ExpectedAm(sess'[s].received)]_vars

\* A Reading written by the timeout with am set by an earlier frame, the
\* last frame before it being Blank.
C20_Witness ==
  \E s \in SessionIds :
    /\ sess[s].timeout = "fired"
    /\ Len(sess[s].readings) = 1
    /\ sess[s].readings[1].am
    /\ Len(sess[s].received) >= 2
    /\ sess[s].received[Len(sess[s].received)] = BlankMsg
    /\ sess[s].samplesAtTimeout = Len(sess[s].samples)

\* C21: a 10-character dsp is handled as the 12-character value with 00
\* appended: the session ends up as it would after that 12-character
\* message, and unless the frame is Blank or letter-text, lastStatusByte1 is
\* byte 4 of the frame and lightOn, jets2Hi, jets2Lo and auxLo are false.
C21_PaddedAsTwelve ==
  (Returned("onMessage") /\ Len(call.m.dsp) = 10) =>
    LET f12 == call.m.dsp \o <<0, 0>>
        as12 == Deliver(call.se, Msg("string", f12))
        st == ret.se.state
    IN  /\ [ret.se EXCEPT !.received = <<>>] = [as12 EXCEPT !.received = <<>>]
        /\ (call.m.dsp # PATTERN_BLANK /\ ~IsLetterText(BytesOf(f12)))
             => /\ st.lastStatusByte1 = 16 * call.m.dsp[9] + call.m.dsp[10]
                /\ ~st.lightOn /\ ~st.jets2Hi /\ ~st.jets2Lo /\ ~st.auxLo

\* A 10-character Temperature frame reached a session whose light and
\* second-pump flags were set, cleared them and was sampled.
C21_Witness ==
  /\ Returned("onMessage")
  /\ Len(call.m.dsp) = 10
  /\ call.se.state.lightOn /\ call.se.state.auxLo
  /\ ~ret.se.state.lightOn /\ ~ret.se.state.auxLo
  /\ ret.se.state.lastStatusByte1 = 133
  /\ ret.se.samples = <<98, 98>>

\* The status bytes A and B that message m carries: bytes 4 and 5 of a dsp
\* of 12 characters, byte 4 and 0 of a dsp of 10 characters; <<>> when m is
\* malformed, Blank or a letter text, which carry none.
StatusBytesOf(m) ==
  IF m.kind # "string" \/ Len(m.dsp) \notin {10, 12} THEN <<>>
  ELSE IF SubSeq(m.dsp, 1, 10) = PATTERN_BLANK THEN <<>>
  ELSE IF IsLetterText(BytesOf(SubSeq(m.dsp, 1, 8))) THEN <<>>
  ELSE <<16 * m.dsp[9] + m.dsp[10],
         IF Len(m.dsp) = 12 THEN 16 * m.dsp[11] + m.dsp[12] ELSE 0>>

RECURSIVE LastStatus(_)
\* The status bytes of the most recent message of rcv that carries them;
\* <<0, 0>>, whose bits are all clear, when none does.
LastStatus(rcv) ==
  IF rcv = <<>> THEN <<0, 0>>
  ELSE LET st == StatusBytesOf(rcv[Len(rcv)])
       IN  IF st # <<>> THEN st ELSE LastStatus(SubSeq(rcv, 1, Len(rcv) - 1))

\* The flags a session that has received rcv is to hold: each the value of
\* its bit in the most recent status bytes received, false when there are
\* none.  overheat is read from bit 6 of status byte A, the bit
\* STATUS_OVERHEAT gives it.
ExpectedFlags(rcv) ==
  LET st == LastStatus(rcv)
  IN  [heating |-> Bit(st[1], 0), auxHi |-> Bit(st[1], 1),
       jetsLo |-> Bit(st[1], 2), jetsHi |-> Bit(st[1], 3),
       filtering |-> Bit(st[1], 4), edit |-> Bit(st[1], 5),
       overheat |-> Bit(st[1], 6),
       lightOn |-> Bit(st[2], 4), jets2Hi |-> Bit(st[2], 5),
       jets2Lo |-> Bit(st[2], 6), auxLo |-> Bit(st[2], 7)]

\* The boolean fields of the record r (a CollectionState or a Reading) that
\* are set from a bit of a status byte.
BitFlagsOf(r) ==
  [heating |-> r.heating, auxHi |-> r.auxHi, jetsLo |-> r.jetsLo,
   jetsHi |-> r.jetsHi, filtering |-> r.filtering, edit |-> r.edit,
   overheat |-> r.overheat,
   lightOn |-> r.lightOn, jets2Hi |-> r.jets2Hi, jets2Lo |-> r.jets2Lo,
   auxLo |-> r.auxLo]

\* C22: a session that has received nothing holds all flags false and no
\* currentTemp or lastStatusByte1, whatever the sessions before it have
\* received; after every step that changes a session the flags of its state
\* are the bits of the most recent status bytes it has received itself
\* (false when none), and so are the flags of a Reading the step writes.
C22_FlagsFromLastStatus ==
  [][\A s \in SessionIds :
       /\ sess[s].received = <<>>
            => /\ \A i \in 1..Len(FlagsOf(sess[s].state)) :
                    ~FlagsOf(sess[s].state)[i]
               /\ sess[s].state.currentTemp = Null
               /\ sess[s].state.lastStatusByte1 = Null
       /\ sess'[s] # sess[s]
            => LET expected == ExpectedFlags(sess'[s].received)
               IN  /\ BitFlagsOf(sess'[s].state) = expected
                   /\ Len(sess'[s].readings) > Len(sess[s].readings)
                        => BitFlagsOf(sess'[s].readings[Len(sess'[s].readings)])
                             = expected]_vars

\* The first session merged the status bytes 44 00, a Blank frame and then
\* 85 10, and closed holding heating, jetsLo and lightOn; the second
\* session received the one frame with 44 00, and the
\* Reading its timeout wrote has jetsLo and overheat from that frame and
\* neither heating nor lightOn from the session before.
C22_Witness ==
  /\ nsess = 2
  /\ sess[1].received = <<T99, BlankMsg, T98>>
  /\ sess[1].ws = "closed"
  /\ sess[1].state.heating /\ sess[1].state.lightOn
  /\ ~sess[1].state.overheat
  /\ sess[2].received = <<T99>>
  /\ sess[2].timeout = "fired"
  /\ Len(sess[2].readings) = 1
  /\ sess[2].readings[1].jetsLo /\ sess[2].readings[1].overheat
  /\ ~sess[2].readings[1].heating /\ ~sess[2].readings[1].lightOn

\* C23: the step in which the timeout fires with 1 or 2 samples requests
\* the transport close and writes the session's one Reading, whose
\* temperature (in half-degrees) is twice the sample when there is one and
\* the sum of the two when there are two; the close event of a session
\* whose timeout fired with 1 or 2 samples writes no Reading.
C23_TimeoutWithSamples ==
  [][\A s \in SessionIds :
       /\ (/\ sess[s].timeout = "pending" /\ sess'[s].timeout = "fired"
           /\ Len(sess[s].samples) \in {1, 2})
            => /\ sess'[s].closeCalled
               /\ sess'[s].ws \in {"closing", "aborting", "errored", "closed"}
               /\ Len(sess'[s].readings) = 1
               /\ sess'[s].readings[1].currentTemp
                    = IF Len(sess[s].samples) = 1
                      THEN 2 * sess[s].samples[1]
                      ELSE sess[s].samples[1] + sess[s].samples[2]
       /\ (/\ sess[s].ws # "closed" /\ sess'[s].ws = "closed"
           /\ sess[s].timeout = "fired"
           /\ sess[s].samplesAtTimeout \in {1, 2})
            => sess'[s].readings = sess[s].readings]_vars

\* The timeout fired with the samples 97 and 99, the Reading holds their
\* mean 98, and the close event has followed.
C23_Witness ==
  \E s \in SessionIds :
    /\ sess[s].timeout = "fired"
    /\ sess[s].samplesAtTimeout = 2
    /\ sess[s].samples = <<97, 99>>
    /\ sess[s].ws = "closed"
    /\ Len(sess[s].readings) = 1
    /\ sess[s].readings[1].currentTemp = 196

\* The temperature the Temperature rule reads from message m: byte 0 is the
\* Fahrenheit code, and bytes 3, 2, 1 read 1dd within 100..106 or bytes 2, 1
\* read dd within 45..99 and byte 3 does not read 1; Undefined when m is no
\* Temperature frame.
TemperatureOf(m) ==
  IF m.kind # "string" \/ Len(m.dsp) < 8 THEN Undefined
  ELSE LET bs == BytesOf(m.dsp)
           ones == ExpectedDigit(bs[2])
           tens == ExpectedDigit(bs[3])
           hundreds == ExpectedDigit(bs[4])
       IN  IF bs[1] % 128 # 113 \/ ones = Null \/ tens = Null THEN Undefined
           ELSE IF hundreds = 1
             THEN IF 100 + 10 * tens + ones <= 106
                  THEN 100 + 10 * tens + ones ELSE Undefined
           ELSE IF 10 * tens + ones >= 45 THEN 10 * tens + ones
           ELSE Undefined

RECURSIVE TemperaturesOf(_)
\* The values of the Temperature frames of rcv, in order.
TemperaturesOf(rcv) ==
  IF rcv = <<>> THEN <<>>
  ELSE LET t == TemperatureOf(Head(rcv))
       IN  (IF t = Undefined THEN <<>> ELSE <<t>>) \o TemperaturesOf(Tail(rcv))

\* C24: in every state the sample list of a session is the list of the
\* values of the Temperature frames it has received, in arrival order, and
\* currentTemp is absent when that list is empty and its last element
\* otherwise; so a frame of another variant changes neither.
C24_SamplesAreTemperatures ==
  \A s \in SessionIds :
    LET temps == TemperaturesOf(sess[s].received)
    IN  /\ sess[s].samples = temps
        /\ sess[s].state.currentTemp
             = IF temps = <<>> THEN Null ELSE temps[Len(temps)]

\* Two Temperature frames with a Blank frame between them and a message
\* without dsp after them: two samples, currentTemp the second.
C24_Witness ==
  \E s \in SessionIds :
    /\ sess[s].received = <<T97, BlankMsg, T99, NoDsp>>
    /\ sess[s].samples = <<97, 99>>
    /\ sess[s].state.currentTemp = 99

\* C25: the sample list of a session never holds more than SAMPLE_COUNT
\* samples.
C25_AtMostThreeSamples ==
  \A s \in SessionIds : Len(sess[s].samples) <= SAMPLE_COUNT

\* C26: every temperature parseDisplayData returns lies in 45..106, and no
\* other variant carries one; the currentTemp the merge leaves is absent or
\* in 45..106; every sample of a session is in 45..106; and the temperature
\* of a Reading, the median of such samples, is in 45..106 (90..212 in
\* half-degrees).
C26_TemperatureInRange ==
  /\ Returned("parseDisplayData")
       => IF ret.display.type = "temp"
          THEN ret.display.temp \in 45..106
          ELSE ret.display.temp = Undefined
  /\ Returned("updateStateFromDisplay")
       => ret.state.currentTemp \in (45..106) \cup {Null}
  /\ Returned("onMessage")
       => /\ \A i \in 1..Len(ret.se.samples) : ret.se.samples[i] \in 45..106
          /\ ret.se.state.currentTemp \in (45..106) \cup {Null}
          /\ \A i \in 1..Len(ret.se.readings) :
               ret.se.readings[i].currentTemp \in 90..212
  /\ (Returned("median") /\ call.values # <<>>) => ret.value \in 90..212

\* parseDisplayData returned the largest temperature, 106, from a frame
\* whose byte 3 reads 1.
C26_Witness ==
  /\ Returned("parseDisplayData")
  /\ ret.display.type = "temp"
  /\ ret.display.temp = 106
  /\ BytesOf(call.hexString)[4] % 128 = 6

\* C27: a 6-byte frame that parseDisplayData returns as unknown without its
\* status bytes is a letter text, and is neither a frame the Temperature
\* rule accepts nor one the Time rule accepts (bytes 0 to 2 all digit
\* codes): without the letter rule it would have been Unknown with its
\* status bytes.
C27_LetterRuleNeverPreempts ==
  (Returned("parseDisplayData") /\ Len(call.hexString) = 12) =>
    LET bs == BytesOf(call.hexString)
        dropped == /\ ret.display.type = "unknown"
                   /\ ret.display.statusByte1 = Undefined
        isTime == \A k \in 1..3 : ExpectedDigit(bs[k]) # Null
    IN  /\ dropped => /\ IsLetterText(bs)
                      /\ ret.display.statusByte2 = Undefined
                      /\ TemperatureOf(Msg("string", call.hexString)) = Undefined
                      /\ ~isTime
        /\ ret.display.type \in {"temp", "time"}
             => ret.display.statusByte1 = bs[5]

\* The frame 71 71 5c 06 85 10 reads OFF: byte 0 is the Fahrenheit code,
\* and the frame is returned as unknown without status bytes.
C27_Witness ==
  /\ Returned("parseDisplayData")
  /\ call.hexString = Hex(<<113, 113, 92, 6, 133, 16>>)
  /\ ret.display.type = "unknown"
  /\ ret.display.statusByte1 = Undefined

\* C28: in the continuous monitor the reconnect counter stays within
\* 0..10; a step in which the connection opens leaves it at 0; a close
\* event that is the eleventh or later since the last open exits the
\* process and arms no timer, while an earlier one arms one; and the
\* sockets not yet closed and the armed reconnect timers number at most one
\* together.
C28_ReconnectBounded ==
  [][/\ mon.reconnectAttempts \in 0..10
     /\ mon'.reconnectAttempts \in 0..10
     /\ mon.sockets + mon.timers <= 1
     /\ mon'.sockets + mon'.timers <= 1
     /\ (mon.ws = "connecting" /\ mon'.ws = "open")
          => mon'.reconnectAttempts = 0
     /\ (mon.ws # "closed" /\ mon'.ws = "closed")
          => IF mon.closesSinceOpen >= 10
             THEN mon'.proc = "exit1" /\ mon'.timers = 0
                  /\ mon'.nconn = mon.nconn
             ELSE mon'.proc = "running" /\ mon'.timers = 1]_vars

\* The monitor gave up on its eleventh close in a row, after a connection
\* that had opened.
C28_Witness ==
  /\ mon.proc = "exit1"
  /\ mon.closesSinceOpen = 11
  /\ mon.nconn = 12
  /\ mon.reconnectAttempts = 10

====
